---- MODULE Spec2Model ----
(***************************************************************************)
(* Task management core of the rCore teaching kernel (chapter 5 layout):   *)
(* the ready queue, the Processor's current slot, the dispatch loop, the   *)
(* yield and exit lifecycle of a task control block, and the mmap/munmap   *)
(* system calls acting on the current task's page table.                   *)
(*                                                                         *)
(* Tasks are named by their pid.  A page-table entry is an integer: NoPte  *)
(* when translate() finds no entry, otherwise the entry's flag bits        *)
(* (V = 1, R = 2, W = 4, X = 8, U = 16); an entry without V is invalid.    *)
(***************************************************************************)
EXTENDS Integers, Sequences, FiniteSets, TLC

\* ---------------------------------------------------------------- bounds
NumTasks == 3
NumPages == 2
MaxExit == 1
\* a run explores either MaxDispatch dispatches without memory system calls,
\* or MemDispatch dispatches with up to MaxMemOps memory system calls
MaxDispatch == 5
MemDispatch == 1
MaxMemOps == 2
\* a run with the time and accounting system calls: dispatches, calls of
\* get_time / task_info / sbrk, clock ticks, and the size of the heap
InfoDispatch == 4
MaxAuxOps == 2
MaxClock == 2

\* ------------------------------------------------------ program constants
IDLE_PID == 0
PAGE_SIZE == 4096

INITPROC == 0
None == -1
NoPte == -1
PTE_V == 1
PERM_R == 2
PERM_W == 4
PERM_X == 8
PERM_U == 16
\* microseconds of one tick of the monotonic clock, per millisecond and
\* per second
TickUs == 500
UsPerMs == 1000
UsPerSec == 1000000
\* the break may rise this far above the bottom of the heap
HEAP_LIMIT == 1

Tasks == 0 .. (NumTasks - 1)
Vpns == 0 .. (NumPages - 1)
Ports == {0, 3, 4, 8, 9}
ExitCodes == 0 .. MaxExit
Budgets == {[disp |-> MaxDispatch, mem |-> 0, aux |-> 0, ticks |-> 0,
             codes |-> MaxExit],
            [disp |-> MemDispatch, mem |-> MaxMemOps, aux |-> 0, ticks |-> 0,
             codes |-> 0],
            [disp |-> InfoDispatch, mem |-> 0, aux |-> MaxAuxOps,
             ticks |-> MaxClock, codes |-> 0]}
Scheduling(b) == b.mem = 0 /\ b.aux = 0
SyscallIds == {"yield", "exit", "get_time", "task_info", "mmap", "munmap",
               "sbrk"}
SbrkSizes == {0 - 1, 1}
\* every page-aligned start of the window and one that is not aligned;
\* every whole number of pages and one length that is not
StartAddrs == {v * PAGE_SIZE : v \in Vpns} \cup {1}
Lengths == {k * PAGE_SIZE : k \in 0 .. NumPages} \cup {1}
PteValues == {NoPte} \cup 0 .. 31
PageTables == [Vpns -> PteValues]

VARIABLES ready_queue, current, task_status, exit_code, parent, children,
          page_table, recycled, halted, admitted, dispatched, nmem, last,
          budget, erased, guards, task_sys_calls, clock, task_start,
          task_begin, first_dispatch, program_brk, naux

vars == <<ready_queue, current, task_status, exit_code, parent, children,
          page_table, recycled, halted, admitted, dispatched, nmem, last,
          budget, erased, guards, task_sys_calls, clock, task_start,
          task_begin, first_dispatch, program_brk, naux>>

sched_vars == <<ready_queue, current, task_status, dispatched>>
family_vars == <<parent, children>>
time_vars == <<clock, task_start, task_begin, first_dispatch>>
heap_vars == <<program_brk, naux>>

\* ---------------------------------------------------------------- helpers
RECURSIVE SeqOf(_)
\* the members of the set S of integers as a sequence in increasing order
SeqOf(S) ==
    IF S = {} THEN <<>>
    ELSE LET m == CHOOSE x \in S : \A y \in S : x <= y
         IN <<m>> \o SeqOf(S \ {m})

Range(s) == {s[i] : i \in 1 .. Len(s)}
Perms(S) == {s \in [1 .. Cardinality(S) -> S] : Range(s) = S}
Count(s, x) == Cardinality({i \in 1 .. Len(s) : s[i] = x})

Bit(n, k) == (n \div (2 ^ k)) % 2
BitAnd(a, b) ==
    Bit(a, 0) * Bit(b, 0) + 2 * Bit(a, 1) * Bit(b, 1) + 4 * Bit(a, 2) * Bit(b, 2)
    + 8 * Bit(a, 3) * Bit(b, 3) + 16 * Bit(a, 4) * Bit(b, 4)
    + 32 * Bit(a, 5) * Bit(b, 5) + 64 * Bit(a, 6) * Bit(b, 6)
    + 128 * Bit(a, 7) * Bit(b, 7)
BitOr(a, b) == a + b - BitAnd(a, b)

\* ------------------------------------------------------------- ready queue
add_task(q, task) == Append(q, task)
fetch_task(q) == IF q = <<>> THEN None ELSE Head(q)
fetch_rest(q) == IF q = <<>> THEN q ELSE Tail(q)

\* --------------------------------------------------------------- Processor
take_current_task == current
getpid(task) == task

\* ------------------------------------------------------------ address space
floor(va) == va \div PAGE_SIZE
ceil(va) == IF va = 0 THEN 0 ELSE (va - 1 + PAGE_SIZE) \div PAGE_SIZE
VPNRange(st, ed) == {v \in Vpns : st <= v /\ v < ed}
translate(pt, vpn) == pt[vpn]
is_valid(pte) == pte # NoPte /\ Bit(pte, 0) = 1
insert_framed_area(pt, start_va, end_va, perm) ==
    [v \in Vpns |-> IF v \in VPNRange(floor(start_va), ceil(end_va))
                    THEN BitOr(perm, PTE_V) ELSE pt[v]]
erase_virt_map(pt, vpn, gone) == [pt EXCEPT ![vpn] = gone]
from_bits_truncate(bits) == BitAnd(bits, PERM_R + PERM_W + PERM_X + PERM_U)

\* ---------------------------------------------------- exclusive-access guards
\* A guard is the Processor's, the ready queue's or a task's inner record.
\* An operation is written as the sequence of its acquisitions and releases
\* in source order, up to its context transfer (__switch) if it has one.
G_PROCESSOR == <<"processor", 0>>
G_MANAGER == <<"manager", 0>>
G_INNER(task) == <<"inner", task>>
Acq(g) == <<"acq", g>>
Rel(g) == <<"rel", g>>

RECURSIVE HeldAfter(_, _)
\* the guards held after the events of trace, starting with the set held0
HeldAfter(held0, trace) ==
    IF trace = <<>> THEN held0
    ELSE LET ev == Head(trace)
         IN HeldAfter(IF ev[1] = "acq" THEN held0 \cup {ev[2]}
                                       ELSE held0 \ {ev[2]},
                      Tail(trace))

RECURSIVE DoubleAcquire(_, _)
\* some event of trace acquires a guard that is held at that point
DoubleAcquire(held0, trace) ==
    IF trace = <<>> THEN FALSE
    ELSE LET ev == Head(trace)
         IN \/ ev[1] = "acq" /\ ev[2] \in held0
            \/ DoubleAcquire(HeldAfter(held0, <<ev>>), Tail(trace))

RECURSIVE Flatten(_)
Flatten(traces) ==
    IF traces = <<>> THEN <<>> ELSE Head(traces) \o Flatten(Tail(traces))

\* processor.rs 143-145: the guard is a temporary of the statement
take_current_task_guards == <<Acq(G_PROCESSOR), Rel(G_PROCESSOR)>>
\* processor.rs 148-150
current_task_guards == <<Acq(G_PROCESSOR), Rel(G_PROCESSOR)>>
\* ready queue access inside add_task and fetch_task
manager_guards == <<Acq(G_MANAGER), Rel(G_MANAGER)>>
\* mod.rs 107-146: current_task(), then the task's inner record until the
\* function returns
current_inner_guards(task) ==
    current_task_guards \o <<Acq(G_INNER(task)), Rel(G_INNER(task))>>

\* processor.rs 167-174: acquire (168), drop (170), __switch (172)
schedule_guards == <<Acq(G_PROCESSOR), Rel(G_PROCESSOR)>>

\* variant: drop(processor) of line 132 is missing
run_tasks_guards_no_drop(task) ==
    <<Acq(G_PROCESSOR)>> \o manager_guards
    \o (IF task # None
        THEN <<Acq(G_INNER(task)), Rel(G_INNER(task))>>
        ELSE <<Rel(G_PROCESSOR)>>)

\* processor.rs 114-139: processor (115), fetch_task (116), the coming
\* task's inner record (119, dropped 128), drop(processor) (132), __switch
\* (134); without a task the processor guard ends with the iteration
run_tasks_guards(task) ==
    <<Acq(G_PROCESSOR)>> \o manager_guards
    \o (IF task # None
        THEN <<Acq(G_INNER(task)), Rel(G_INNER(task)), Rel(G_PROCESSOR)>>
        ELSE <<Rel(G_PROCESSOR)>>)

\* mod.rs 40-56: take_current_task (42), inner record (45, dropped 49),
\* add_task (53), schedule (55)
suspend_guards(task) ==
    take_current_task_guards
    \o <<Acq(G_INNER(task)), Rel(G_INNER(task))>>
    \o manager_guards \o schedule_guards

\* variant: the inner records are taken whatever the pid
exit_guards_no_idle_check(task, kids) ==
    take_current_task_guards
    \o <<Acq(G_INNER(task)), Acq(G_INNER(INITPROC))>>
    \o Flatten([i \in 1 .. Len(kids) |->
                   <<Acq(G_INNER(kids[i])), Rel(G_INNER(kids[i]))>>])
    \o <<Rel(G_INNER(INITPROC)), Rel(G_INNER(task))>>
    \o schedule_guards

\* mod.rs 62-103: take_current_task (64); the panic for IDLE_PID (72) ends
\* the operation; else the task's inner record (76), INITPROC's (85), each
\* child's for the statement of line 87, INITPROC's released at 90, the
\* task's at 96, schedule (102)
exit_guards(task, kids) ==
    take_current_task_guards
    \o (IF task = IDLE_PID THEN <<>>
        ELSE <<Acq(G_INNER(task)), Acq(G_INNER(INITPROC))>>
             \o Flatten([i \in 1 .. Len(kids) |->
                            <<Acq(G_INNER(kids[i])), Rel(G_INNER(kids[i]))>>])
             \o <<Rel(G_INNER(INITPROC)), Rel(G_INNER(task))>>
             \o schedule_guards)

\* the guard record after an operation: what is held when it ends or
\* transfers control, and whether a held guard was acquired again
GuardsAfter(trace) ==
    [held |-> HeldAfter(guards.held, trace),
     double |-> guards.double \/ DoubleAcquire(guards.held, trace)]

NoOp == [seq |-> 0, op |-> "none", pid |-> None, start |-> 0, len |-> 0,
         port |-> 0, code |-> 0, ret |-> 0,
         before |-> [v \in Vpns |-> NoPte], kids |-> <<>>,
         status |-> "none", counts |-> [id \in SyscallIds |-> 0],
         time |-> 0, sec |-> 0, usec |-> 0]

\* ------------------------------------------------------------------- timer
get_time_us == clock * TickUs
get_time_ms == get_time_us \div UsPerMs

\* -------------------------------------------------------------- accounting
\* variant: one set of counters for the whole processor
inc_sys_call_time_global(calls, task, syscall_id) ==
    [t \in Tasks |-> [calls[t] EXCEPT ![syscall_id] = @ + 1]]

\* mod.rs 114-118: the counter of the current task for this id (a u32; the
\* number of system calls of a run stays far below its range)
inc_sys_call_time(calls, task, syscall_id) ==
    [calls EXCEPT ![task][syscall_id] = @ + 1]

\* the system call entry: the call is counted, then handled
syscall_entry(syscall_id) ==
    task_sys_calls' = inc_sys_call_time(task_sys_calls, current, syscall_id)

\* ---------------------------------------------------------------- initial
\* The family trees: INITPROC is the root, every other task was forked by
\* a task created before it.  The ready queue holds every task once.  A run
\* with memory system calls starts where INITPROC has forked every other
\* task and yielded.
Trees == {p \in [Tasks -> Tasks \cup {None}] :
             /\ p[INITPROC] = None
             /\ \A t \in Tasks \ {INITPROC} : p[t] \in 0 .. (t - 1)}
Star == [t \in Tasks |-> IF t = INITPROC THEN None ELSE INITPROC]
ForkedOrder == Tail(SeqOf(Tasks)) \o <<INITPROC>>
\* The page table a task starts with: no entry at all, or page 0 mapped
\* readable and the other pages with an entry that is not valid.
InitTables == {[v \in Vpns |-> NoPte],
               [v \in Vpns |-> IF v = 0 THEN PTE_V + PERM_R + PERM_U ELSE 0]}

Init ==
    /\ budget \in Budgets
    /\ parent \in (IF Scheduling(budget) THEN Trees ELSE {Star})
    /\ children = [t \in Tasks |-> SeqOf({c \in Tasks : parent[c] = t})]
    /\ ready_queue \in (IF Scheduling(budget) THEN Perms(Tasks)
                                             ELSE {ForkedOrder})
    /\ admitted = ready_queue
    /\ current = None
    /\ task_status = [t \in Tasks |-> "Ready"]
    /\ exit_code = [t \in Tasks |-> 0]
    /\ \E pt \in (IF budget.mem = 0 THEN {[v \in Vpns |-> NoPte]}
                                     ELSE InitTables) :
          page_table = [t \in Tasks |-> pt]
    /\ erased \in (IF budget.mem = 0 THEN {0} ELSE {NoPte, 0})
    /\ recycled = [t \in Tasks |-> FALSE]
    /\ halted = FALSE
    /\ dispatched = <<>>
    /\ nmem = 0
    /\ last = NoOp
    /\ guards = [held |-> {}, double |-> FALSE]
    /\ task_sys_calls = [t \in Tasks |-> [id \in SyscallIds |-> 0]]
    /\ clock = 0
    /\ task_start = [t \in Tasks |-> 0]
    /\ task_begin = [t \in Tasks |-> FALSE]
    /\ first_dispatch = [t \in Tasks |-> None]
    /\ program_brk = [t \in Tasks |-> 0]
    /\ naux = 0

\* the monotonic clock advances by one tick while a task runs
Tick ==
    /\ ~halted
    /\ current # None
    /\ clock < budget.ticks
    /\ clock' = clock + 1
    /\ UNCHANGED <<sched_vars, exit_code, family_vars, page_table, recycled,
                   halted, admitted, nmem, last, budget, erased, guards,
                   task_sys_calls, task_start, task_begin, first_dispatch,
                   heap_vars>>

\* variant: the start time is written at every dispatch
every_dispatch_stamp(task) ==
    [task_start EXCEPT ![task] = get_time_ms]

\* processor.rs 123-126: task_start of the coming task
first_dispatch_stamp(task) ==
    IF task_begin[task] = FALSE
    THEN [task_start EXCEPT ![task] = get_time_ms]
    ELSE task_start

\* ------------------------------------------------------------- dispatch loop
\* processor.rs 113-140, one iteration, taken when control is in the idle
\* flow.  The record of the latest system call is per time slice: a dispatch
\* clears it.
run_tasks ==
    /\ ~halted
    /\ current = None
    /\ Len(dispatched) < budget.disp
    /\ LET task == fetch_task(ready_queue)
       IN IF task # None
          THEN /\ ready_queue' = fetch_rest(ready_queue)
               /\ task_status' = [task_status EXCEPT ![task] = "Running"]
               /\ current' = task
               /\ dispatched' = Append(dispatched, task)
               /\ task_start' = first_dispatch_stamp(task)
               /\ task_begin' = [task_begin EXCEPT ![task] = TRUE]
               /\ first_dispatch' =
                     IF task \in Range(dispatched) THEN first_dispatch
                     ELSE [first_dispatch EXCEPT ![task] = get_time_ms]
          ELSE UNCHANGED <<sched_vars, task_start, task_begin, first_dispatch>>
    /\ last' = [NoOp EXCEPT !.seq = last.seq]
    /\ UNCHANGED <<exit_code, family_vars, page_table, recycled, halted,
                   admitted, nmem, budget, erased>>
    /\ guards' = GuardsAfter(run_tasks_guards(fetch_task(ready_queue)))
    /\ UNCHANGED <<task_sys_calls, clock, heap_vars>>

\* ------------------------------------------------------------------- yield
\* variant: the task is cloned out of the current slot (current_task) and
\* not taken
suspend_keeps_current ==
    /\ ~halted
    /\ current # None
    /\ task_status' = [task_status EXCEPT ![current] = "Ready"]
    /\ ready_queue' = add_task(ready_queue, current)
    /\ UNCHANGED <<current, exit_code, family_vars, page_table, recycled,
                   halted, admitted, dispatched, nmem, budget, erased>>
    /\ guards' = GuardsAfter(suspend_guards(current))
    /\ UNCHANGED <<time_vars, heap_vars>>

\* variant: the task is put at the head of the ready queue
suspend_push_front ==
    /\ ~halted
    /\ current # None
    /\ current' = None
    /\ task_status' = [task_status EXCEPT ![current] = "Ready"]
    /\ ready_queue' = <<current>> \o ready_queue
    /\ UNCHANGED <<exit_code, family_vars, page_table, recycled, halted,
                   admitted, dispatched, nmem, budget, erased>>
    /\ guards' = GuardsAfter(suspend_guards(current))
    /\ UNCHANGED <<time_vars, heap_vars>>

\* variant: the status is left as it was (line 48 missing)
suspend_keeps_status ==
    /\ ~halted
    /\ current # None
    /\ current' = None
    /\ ready_queue' = add_task(ready_queue, current)
    /\ UNCHANGED <<task_status, exit_code, family_vars, page_table, recycled,
                   halted, admitted, dispatched, nmem, budget, erased>>
    /\ guards' = GuardsAfter(suspend_guards(current))
    /\ UNCHANGED <<time_vars, heap_vars>>

\* mod.rs 40-56
suspend_current_and_run_next ==
    /\ ~halted
    /\ current # None
    /\ LET task == take_current_task
       IN /\ current' = None
          /\ task_status' = [task_status EXCEPT ![task] = "Ready"]
          /\ ready_queue' = add_task(ready_queue, task)
    /\ UNCHANGED <<exit_code, family_vars, page_table, recycled, halted,
                   admitted, dispatched, nmem, budget, erased>>
    /\ guards' = GuardsAfter(suspend_guards(current))
    /\ UNCHANGED <<time_vars, heap_vars>>

sys_yield ==
    /\ syscall_entry("yield")
    /\ suspend_current_and_run_next
    /\ UNCHANGED last

\* -------------------------------------------------------------------- exit
\* mod.rs 76-80 and 95: what a task other than IDLE_PID does to its own
\* record (Zombie, the exit code, recycle_data_pages)
ExitOwnRecord(task, code) ==
    /\ task_status' = [task_status EXCEPT ![task] = "Zombie"]
    /\ exit_code' = [exit_code EXCEPT ![task] = code]
    /\ recycled' = [recycled EXCEPT ![task] = TRUE]

\* variant: the children are pushed to INITPROC but their parent link is
\* not rewritten
exit_no_reparent(code) ==
    /\ ~halted
    /\ current # None
    /\ current' = None
    /\ IF getpid(current) = IDLE_PID
       THEN /\ halted' = TRUE
            /\ UNCHANGED <<task_status, exit_code, family_vars, recycled>>
       ELSE /\ ExitOwnRecord(current, code)
            /\ children' = [children EXCEPT
                               ![INITPROC] = @ \o children[current],
                               ![current] = <<>>]
            /\ UNCHANGED <<parent, halted>>
    /\ UNCHANGED <<ready_queue, page_table, admitted, dispatched, nmem,
                   budget, erased>>
    /\ guards' = GuardsAfter(exit_guards(current, children[current]))
    /\ UNCHANGED <<time_vars, heap_vars>>

\* variant: no test of the pid against IDLE_PID
exit_no_idle_check(code) ==
    /\ ~halted
    /\ current # None
    /\ current' = None
    /\ ExitOwnRecord(current, code)
    /\ parent' = [c \in Tasks |-> IF c \in Range(children[current])
                                  THEN INITPROC ELSE parent[c]]
    /\ children' = [t \in Tasks |->
                      IF t = current THEN <<>>
                      ELSE IF t = INITPROC
                           THEN children[t] \o children[current]
                           ELSE children[t]]
    /\ UNCHANGED <<halted, ready_queue, page_table, admitted, dispatched,
                   nmem, budget, erased>>
    /\ guards' = GuardsAfter(exit_guards(current, children[current]))
    /\ UNCHANGED <<time_vars, heap_vars>>

\* variant: the exiting task is handed back to the ready queue as in yield
exit_requeues(code) ==
    /\ ~halted
    /\ current # None
    /\ current' = None
    /\ IF getpid(current) = IDLE_PID
       THEN /\ halted' = TRUE
            /\ UNCHANGED <<task_status, exit_code, family_vars, recycled,
                           ready_queue>>
       ELSE /\ ExitOwnRecord(current, code)
            /\ parent' = [c \in Tasks |-> IF c \in Range(children[current])
                                          THEN INITPROC ELSE parent[c]]
            /\ children' = [children EXCEPT
                               ![INITPROC] = @ \o children[current],
                               ![current] = <<>>]
            /\ ready_queue' = add_task(ready_queue, current)
            /\ UNCHANGED halted
    /\ UNCHANGED <<page_table, admitted, dispatched, nmem, budget, erased>>
    /\ guards' = GuardsAfter(exit_guards(current, children[current]))
    /\ UNCHANGED <<time_vars, heap_vars>>

\* variant: the exiting task is pushed to INITPROC's children together with
\* its own children
exit_pushes_self(code) ==
    /\ ~halted
    /\ current # None
    /\ current' = None
    /\ IF getpid(current) = IDLE_PID
       THEN /\ halted' = TRUE
            /\ UNCHANGED <<task_status, exit_code, family_vars, recycled>>
       ELSE /\ ExitOwnRecord(current, code)
            /\ parent' = [c \in Tasks |-> IF c \in Range(children[current])
                                          THEN INITPROC ELSE parent[c]]
            /\ children' = [children EXCEPT
                               ![INITPROC] = (@ \o children[current])
                                             \o <<current>>,
                               ![current] = <<>>]
            /\ UNCHANGED halted
    /\ UNCHANGED <<ready_queue, page_table, admitted, dispatched, nmem,
                   budget, erased>>
    /\ guards' = GuardsAfter(exit_guards(current, children[current]))
    /\ UNCHANGED <<time_vars, heap_vars>>

\* mod.rs 62-103.  take_current_task empties the current slot first; a task
\* whose pid is IDLE_PID panics there.  Any other task becomes a Zombie,
\* records the code, hands its children to INITPROC in list order, clears
\* its own list, has its data pages recycled and switches to the idle flow.
exit_current_and_run_next(code) ==
    /\ ~halted
    /\ current # None
    /\ LET task == take_current_task
           pid == getpid(task)
       IN /\ current' = None
          /\ IF pid = IDLE_PID
             THEN /\ halted' = TRUE
                  /\ UNCHANGED <<task_status, exit_code, family_vars, recycled>>
             ELSE /\ ExitOwnRecord(task, code)
                  /\ parent' = [c \in Tasks |->
                                   IF c \in Range(children[task])
                                   THEN INITPROC ELSE parent[c]]
                  /\ children' = [children EXCEPT
                                     ![INITPROC] = @ \o children[task],
                                     ![task] = <<>>]
                  /\ UNCHANGED halted
    /\ UNCHANGED <<ready_queue, page_table, admitted, dispatched, nmem, budget, erased>>
    /\ guards' = GuardsAfter(exit_guards(current, children[current]))
    /\ UNCHANGED <<time_vars, heap_vars>>

\* process.rs 30-34.  The parameter is _exit_code and the call at line 32
\* passes no argument, so the code handed to exit_current_and_run_next is
\* not the caller's: it is any value of the type.
sys_exit(c) ==
    /\ syscall_entry("exit")
    /\ c <= budget.codes
    /\ \E e \in 0 .. budget.codes : exit_current_and_run_next(e)
    /\ last' = [NoOp EXCEPT !.seq = 1 - last.seq, !.op = "exit",
                            !.pid = current, !.code = c,
                            !.before = page_table[current],
                            !.kids = children[current]]

\* -------------------------------------------------------------------- mmap
\* variant: without the test `_port & !0x7 != 0`
mmap_args_no_high_bits_test(start, port) ==
    \/ start % PAGE_SIZE # 0
    \/ port % 8 = 0

\* process.rs 101-103: start misaligned, a port bit outside 0..2, or none of
\* bits 0..2 set
mmap_args_rejected(start, port) ==
    \/ start % PAGE_SIZE # 0
    \/ (port \div 8) # 0
    \/ port % 8 = 0

\* mod.rs 135-139
get_page_table_entry(pt, vpn) == translate(pt, vpn)

\* variant: only the first page of the range is looked up
mmap_first_page_mapped(pt, vpn_st, vpn_ed) ==
    /\ vpn_st \in VPNRange(vpn_st, vpn_ed)
    /\ get_page_table_entry(pt, vpn_st) # NoPte
    /\ is_valid(get_page_table_entry(pt, vpn_st))

\* process.rs 110-116: some page of the range has a valid entry
mmap_range_mapped(pt, vpn_st, vpn_ed) ==
    \E vpn \in VPNRange(vpn_st, vpn_ed) :
        LET pte == get_page_table_entry(pt, vpn)
        IN pte # NoPte /\ is_valid(pte)

\* variant: the port bits are used without the shift by one
mmap_permission_no_shift(port) ==
    BitOr(from_bits_truncate(port % 256), PERM_U)

\* process.rs 120: from_bits_truncate((_port << 1) as u8) | MapPermission::U
mmap_permission(port) == BitOr(from_bits_truncate((port * 2) % 256), PERM_U)

\* mod.rs 142-146
add_new_mem_area(pt, start_va, end_va, perm) ==
    insert_framed_area(pt, start_va, end_va, perm)

\* process.rs 99-122, as the pair <<return value, page table afterwards>>
mmap_result(pt, start, len, port) ==
    IF mmap_args_rejected(start, port) THEN <<-1, pt>>
    ELSE LET vpn_st == floor(start)
             vpn_ed == ceil(start + len)
         IN IF mmap_range_mapped(pt, vpn_st, vpn_ed) THEN <<-1, pt>>
            ELSE <<0, add_new_mem_area(pt, vpn_st * PAGE_SIZE,
                                       vpn_ed * PAGE_SIZE,
                                       mmap_permission(port))>>

\* The system call of the running task.  The range must lie in the modelled
\* window of pages; last records the call, its result and the caller's
\* page table before it.
sys_mmap(start, len, port) ==
    /\ ~halted
    /\ current # None
    /\ syscall_entry("mmap")
    /\ nmem < budget.mem
    /\ ceil(start + len) <= NumPages
    /\ LET r == mmap_result(page_table[current], start, len, port)
       IN /\ page_table' = [page_table EXCEPT ![current] = r[2]]
          /\ last' = [NoOp EXCEPT !.seq = 1 - last.seq, !.op = "mmap",
                                  !.pid = current, !.start = start,
                                  !.len = len, !.port = port, !.ret = r[1],
                                  !.before = page_table[current]]
    /\ nmem' = nmem + 1
    /\ UNCHANGED <<sched_vars, exit_code, family_vars, recycled, halted,
                   admitted, budget, erased>>
    /\ guards' = GuardsAfter(IF mmap_args_rejected(start, port) THEN <<>>
                           ELSE current_inner_guards(current))
    /\ UNCHANGED <<time_vars, heap_vars>>

\* ------------------------------------------------------------------ munmap
RECURSIVE unmap_loop_absent_fails(_, _, _, _)
\* variant: a page without an entry returns -1 like an invalid one
unmap_loop_absent_fails(pt, vpn, vpn_ed, gone) ==
    IF vpn >= vpn_ed THEN <<0, pt>>
    ELSE LET pte == translate(pt, vpn)
         IN IF pte = NoPte \/ ~is_valid(pte) THEN <<-1, pt>>
            ELSE unmap_loop_absent_fails(erase_virt_map(pt, vpn, gone),
                                         vpn + 1, vpn_ed, gone)

RECURSIVE unmap_loop(_, _, _, _)
\* mod.rs 156-164: the pages in increasing order; a page without an entry
\* is skipped, an entry that is not valid returns -1 at once, a valid one is
\* erased.  gone is what translate finds at an erased page afterwards.
unmap_loop(pt, vpn, vpn_ed, gone) ==
    IF vpn >= vpn_ed THEN <<0, pt>>
    ELSE LET pte == translate(pt, vpn)
         IN IF pte # NoPte
            THEN IF ~is_valid(pte) THEN <<-1, pt>>
                 ELSE unmap_loop(erase_virt_map(pt, vpn, gone), vpn + 1,
                                 vpn_ed, gone)
            ELSE unmap_loop(pt, vpn + 1, vpn_ed, gone)

\* variant: the end of the range is rounded down
unmap_mem_area_floor_end(pt, start, len, gone) ==
    unmap_loop(pt, floor(start), floor(start + len), gone)

\* mod.rs 149-165 (processor.rs 88-103 is the same code)
unmap_mem_area(pt, start, len, gone) ==
    unmap_loop(pt, floor(start), ceil(start + len), gone)

\* process.rs 125-131
munmap_result(pt, start, len, gone) ==
    IF start % PAGE_SIZE # 0 THEN <<-1, pt>>
    ELSE unmap_mem_area(pt, start, len, gone)

sys_munmap(start, len) ==
    /\ ~halted
    /\ current # None
    /\ syscall_entry("munmap")
    /\ nmem < budget.mem
    /\ ceil(start + len) <= NumPages
    /\ LET r == munmap_result(page_table[current], start, len, erased)
       IN /\ page_table' = [page_table EXCEPT ![current] = r[2]]
          /\ last' = [NoOp EXCEPT !.seq = 1 - last.seq, !.op = "munmap",
                                  !.pid = current, !.start = start,
                                  !.len = len, !.ret = r[1],
                                  !.before = page_table[current]]
    /\ nmem' = nmem + 1
    /\ UNCHANGED <<sched_vars, exit_code, family_vars, recycled, halted,
                   admitted, budget, erased>>
    /\ guards' = GuardsAfter(IF start % PAGE_SIZE # 0 THEN <<>>
                           ELSE current_inner_guards(current))
    /\ UNCHANGED <<time_vars, heap_vars>>

\* ---------------------------------------------------------------- get_time
\* process.rs 46-68: the record written to the caller's buffer is kept in
\* last
sys_get_time ==
    /\ ~halted
    /\ current # None
    /\ naux < budget.aux
    /\ syscall_entry("get_time")
    /\ LET us == get_time_us
       IN last' = [NoOp EXCEPT !.seq = 1 - last.seq, !.op = "get_time",
                               !.pid = current, !.ret = 0,
                               !.sec = us \div UsPerSec,
                               !.usec = us % UsPerSec]
    /\ naux' = naux + 1
    /\ guards' = GuardsAfter(current_inner_guards(current))
    /\ UNCHANGED <<sched_vars, exit_code, family_vars, page_table, recycled,
                   halted, admitted, nmem, budget, erased, time_vars,
                   program_brk>>

\* --------------------------------------------------------------- task_info
\* mod.rs 107-111, 121-125, 128-132
get_current_task_status == task_status[current]
get_current_task_sys_calls(calls) == calls[current]
get_current_task_start == task_start[current]

\* process.rs 73-93
sys_task_info ==
    /\ ~halted
    /\ current # None
    /\ naux < budget.aux
    /\ syscall_entry("task_info")
    /\ last' = [NoOp EXCEPT
                  !.seq = 1 - last.seq, !.op = "task_info",
                  !.pid = current, !.ret = 0,
                  !.status = get_current_task_status,
                  !.counts = get_current_task_sys_calls(task_sys_calls'),
                  !.time = get_time_ms - get_current_task_start]
    /\ naux' = naux + 1
    /\ guards' = GuardsAfter(current_inner_guards(current))
    /\ UNCHANGED <<sched_vars, exit_code, family_vars, page_table, recycled,
                   halted, admitted, nmem, budget, erased, time_vars,
                   program_brk>>

\* -------------------------------------------------------------------- sbrk
\* the break moves by size unless it would leave the heap
adjust_break(brk, size) ==
    IF brk + size < 0 \/ brk + size > HEAP_LIMIT THEN None ELSE brk + size

\* variant: one break for every task
change_program_brk_shared(brks, task, size) ==
    IF adjust_break(brks[task], size) = None THEN brks
    ELSE [t \in Tasks |-> adjust_break(brks[task], size)]

\* the current task's break after change_program_brk(size)
change_program_brk(brks, task, size) ==
    IF adjust_break(brks[task], size) = None THEN brks
    ELSE [brks EXCEPT ![task] = adjust_break(brks[task], size)]

\* process.rs 134-140: the old break, or -1
sys_sbrk(size) ==
    /\ ~halted
    /\ current # None
    /\ naux < budget.aux
    /\ syscall_entry("sbrk")
    /\ program_brk' = change_program_brk(program_brk, current, size)
    /\ last' = [NoOp EXCEPT
                  !.seq = 1 - last.seq, !.op = "sbrk", !.pid = current,
                  !.len = size,
                  !.ret = IF adjust_break(program_brk[current], size) = None
                          THEN 0 - 1 ELSE program_brk[current]]
    /\ naux' = naux + 1
    /\ guards' = GuardsAfter(current_inner_guards(current))
    /\ UNCHANGED <<sched_vars, exit_code, family_vars, page_table, recycled,
                   halted, admitted, nmem, budget, erased, time_vars>>

Next ==
    \/ \E start \in StartAddrs, len \in Lengths, port \in Ports :
          sys_mmap(start, len, port)
    \/ \E start \in StartAddrs, len \in Lengths : sys_munmap(start, len)
    \/ run_tasks
    \/ sys_yield
    \/ \E c \in ExitCodes : sys_exit(c)
    \/ Tick
    \/ sys_get_time
    \/ sys_task_info
    \/ \E size \in SbrkSizes : sys_sbrk(size)

Spec == Init /\ [][Next]_vars

\* The scheduler alone, under cooperation: the dispatch loop of run_tasks
\* keeps running (processor.rs 114 is `loop`), and a running task
\* eventually yields or exits.
SchedInit == Init /\ Scheduling(budget)
Cooperation == sys_yield \/ \E c \in ExitCodes : sys_exit(c)
SchedNext == run_tasks \/ Cooperation
FairSpec ==
    /\ SchedInit
    /\ [][SchedNext]_vars
    /\ WF_vars(run_tasks)
    /\ WF_vars(Cooperation)

\* =================================================================== claims
\* what the claims read off a state
InQueue(t) == t \in Range(ready_queue)
PosIn(q, t) == CHOOSE i \in 1 .. Len(q) : q[i] = t
NoExitYet == ~halted /\ \A t \in Tasks : task_status[t] # "Zombie"
PagesOf(start, len) ==
    {v \in Vpns : /\ start \div PAGE_SIZE <= v
                  /\ v * PAGE_SIZE < start + len}
Mapped(pt) == {v \in Vpns : pt[v] # NoPte /\ pt[v] % 2 = 1}
PortOutsideRWX(port) == \E k \in 3 .. 7 : Bit(port, k) = 1
PortEmpty(port) == \A k \in 0 .. 2 : Bit(port, k) = 0
ArgsValid(start, port) ==
    start % PAGE_SIZE = 0 /\ ~PortOutsideRWX(port) /\ ~PortEmpty(port)
\* the step is a system call of the named kind
Step(op) == last'.seq # last.seq /\ last'.op = op

\* C1: no task is in the ready queue and in the Processor's current slot at
\* the same time.
C1_QueueAndCurrentDisjoint ==
    \A t \in Tasks : ~(InQueue(t) /\ current = t)

C1_Witness ==
    /\ current # None
    /\ Len(dispatched) >= 3
    /\ ready_queue # <<>>
    /\ \E t \in Tasks : task_status[t] = "Zombie"

\* C2: while no task has exited, the i-th dispatch is of the task admitted
\* at position ((i - 1) mod N) + 1: admission order, repeated round-robin.
C2_RoundRobin ==
    NoExitYet =>
        \A i \in 1 .. Len(dispatched) :
            dispatched[i] = admitted[((i - 1) % NumTasks) + 1]

C2_Witness ==
    /\ NoExitYet
    /\ Len(dispatched) > NumTasks

\* C3: right after a task other than the root with children has exited,
\* every former child has the root as parent and occurs exactly once in the
\* root's children list, and the exited task's children list is empty.
C3_Reparenting ==
    (last.op = "exit" /\ last.pid # INITPROC /\ last.kids # <<>>) =>
        /\ \A c \in Range(last.kids) :
              /\ parent[c] = INITPROC
              /\ Count(children[INITPROC], c) = 1
        /\ children[last.pid] = <<>>

C3_Witness ==
    /\ last.op = "exit"
    /\ last.pid # INITPROC
    /\ last.kids # <<>>
    /\ task_status[last.pid] = "Zombie"

\* C4: an exit of the task with pid IDLE_PID halts the system and changes
\* no status, no family link, no page reclamation flag and no exit code; once
\* halted nothing is dispatched and nothing changes; an exit of a task with
\* another pid never halts.
C4_RootExitHalts ==
    [][/\ (Step("exit") /\ current = IDLE_PID) =>
            /\ halted'
            /\ UNCHANGED <<task_status, parent, children, recycled,
                           exit_code, page_table, ready_queue, dispatched>>
       /\ (Step("exit") /\ current # IDLE_PID) => ~halted'
       /\ halted => UNCHANGED vars]_vars

C4_Witness ==
    /\ halted
    /\ last.op = "exit"
    /\ last.pid = IDLE_PID
    /\ last.kids # <<>>
    /\ task_status[IDLE_PID] = "Running"

\* C5: a Zombie stays a Zombie, is neither in the ready queue nor in the
\* current slot, and is never dispatched again.
C5_ZombieTerminal ==
    [][\A t \in Tasks :
         /\ task_status'[t] = "Zombie" => (~InQueue(t))' /\ current' # t
         /\ task_status[t] = "Zombie" =>
               /\ task_status'[t] = "Zombie"
               /\ \/ dispatched' = dispatched
                  \/ dispatched'[Len(dispatched')] # t]_vars

C5_Witness ==
    /\ \E t \in Tasks : task_status[t] = "Zombie"
    /\ current # None
    /\ last.op = "none"

\* C6: right after sys_exit(c) by a task other than the root, the task is a
\* Zombie and its exit_code is c.
C6_ExitCodeRecorded ==
    (last.op = "exit" /\ last.pid # IDLE_PID) =>
        /\ task_status[last.pid] = "Zombie"
        /\ exit_code[last.pid] = last.code

\* C7: sys_mmap with a misaligned start, a port bit outside bits 0..2 or
\* none of bits 0..2 returns -1 and leaves the caller's page table as it was.
C7_MmapRejectsBadArgs ==
    (/\ last.op = "mmap"
     /\ \/ last.start % PAGE_SIZE # 0
        \/ PortOutsideRWX(last.port)
        \/ PortEmpty(last.port)) =>
        /\ last.ret = -1
        /\ page_table[last.pid] = last.before

C7_Witness ==
    /\ last.op = "mmap"
    /\ last.start % PAGE_SIZE = 0
    /\ last.port = 9
    /\ Mapped(last.before) # {}
    /\ last.len > 0

\* what C8 says of any mmap step: valid arguments and a valid page in the
\* range give -1 and an unchanged page table
MmapOverlapFails ==
    (/\ Step("mmap")
     /\ ArgsValid(last'.start, last'.port)
     /\ PagesOf(last'.start, last'.len) \cap Mapped(last'.before) # {}) =>
        /\ last'.ret = -1
        /\ page_table'[last'.pid] = last'.before
\* the step repeats, with the same arguments, the successful mmap before it
RepeatsMmap ==
    /\ last.op = "mmap"
    /\ last.ret = 0
    /\ Step("mmap")
    /\ last'.pid = last.pid
    /\ last'.start = last.start
    /\ last'.len = last.len
    /\ last'.port = last.port

\* C8 as stated: an mmap over a range with a valid page returns -1 and maps
\* nothing, and a second mmap with the same arguments right after a
\* successful one returns -1.
C8_AsStated ==
    [][MmapOverlapFails /\ (RepeatsMmap => last'.ret = -1)]_vars

\* C8 amended: an mmap over a range with a valid page returns -1 and maps
\* nothing, and a second mmap with the same arguments right after a
\* successful one whose range is not empty (len > 0) returns -1.
C8_OverlapAllOrNothing ==
    [][MmapOverlapFails
       /\ ((RepeatsMmap /\ last.len > 0) => last'.ret = -1)]_vars

C8_Witness ==
    /\ last.op = "mmap"
    /\ last.ret = -1
    /\ ArgsValid(last.start, last.port)
    /\ last.len = 2 * PAGE_SIZE
    /\ Cardinality(Mapped(last.before)) = 1

\* C9: an mmap with valid arguments over a range without a valid page
\* returns 0; afterwards each page of the range is valid and user-accessible
\* with read, write, execute as port bits 0, 1, 2, and every other page is
\* as before.
C9_MmapMapsExactlyRange ==
    (/\ last.op = "mmap"
     /\ ArgsValid(last.start, last.port)
     /\ PagesOf(last.start, last.len) \cap Mapped(last.before) = {}) =>
        /\ last.ret = 0
        /\ \A v \in Vpns :
              LET pte == page_table[last.pid][v]
              IN IF v \in PagesOf(last.start, last.len)
                 THEN /\ pte # NoPte
                      /\ Bit(pte, 0) = 1
                      /\ Bit(pte, 1) = Bit(last.port, 0)
                      /\ Bit(pte, 2) = Bit(last.port, 1)
                      /\ Bit(pte, 3) = Bit(last.port, 2)
                      /\ Bit(pte, 4) = 1
                 ELSE pte = last.before[v]

C9_Witness ==
    /\ last.op = "mmap"
    /\ last.ret = 0
    /\ last.port = 3
    /\ last.len = 2 * PAGE_SIZE
    /\ Mapped(page_table[last.pid]) = Vpns \cap {0, 1}

\* C10: a munmap(start, len) right after a successful mmap(start, len, port)
\* returns 0, leaves no page of the range valid, and the set of valid pages
\* is the one before the mmap.
C10_MmapMunmapRoundTrip ==
    [][(/\ last.op = "mmap"
        /\ last.ret = 0
        /\ Step("munmap")
        /\ last'.pid = last.pid
        /\ last'.start = last.start
        /\ last'.len = last.len) =>
           /\ last'.ret = 0
           /\ PagesOf(last.start, last.len)
                 \cap Mapped(page_table'[last.pid]) = {}
           /\ Mapped(page_table'[last.pid]) = Mapped(last.before)]_vars

C10_Witness ==
    /\ last.op = "munmap"
    /\ last.ret = 0
    /\ last.len = 2 * PAGE_SIZE
    /\ \A v \in PagesOf(last.start, last.len) :
          /\ last.before[v] # NoPte
          /\ Bit(last.before[v], 2) = 1
          /\ v \notin Mapped(page_table[last.pid])
\* C11: a munmap that returns -1 has removed no mapping of the caller's
\* address space.
C11_MunmapFailureRemovesNothing ==
    (last.op = "munmap" /\ last.ret = -1) =>
        page_table[last.pid] = last.before

\* C12: a munmap with an aligned start over pages that all have no entry
\* returns 0 and changes nothing; a munmap returns -1 only for a misaligned
\* start or for a page of the range whose entry exists and is not valid.
C12_MunmapSkipsAbsentPages ==
    /\ (/\ last.op = "munmap"
        /\ last.start % PAGE_SIZE = 0
        /\ \A v \in PagesOf(last.start, last.len) : last.before[v] = NoPte) =>
           /\ last.ret = 0
           /\ page_table[last.pid] = last.before
    /\ (last.op = "munmap" /\ last.ret = -1) =>
           \/ last.start % PAGE_SIZE # 0
           \/ \E v \in PagesOf(last.start, last.len) :
                 last.before[v] # NoPte /\ last.before[v] % 2 = 0

C12_Witness ==
    /\ last.op = "munmap"
    /\ last.ret = 0
    /\ last.start = 0
    /\ last.len = NumPages * PAGE_SIZE
    /\ \E v \in Vpns : last.before[v] = NoPte
    /\ \E v \in Vpns : v \in Mapped(last.before)

\* C15: an exit of a task other than the root that has no children leaves
\* the root's children list as it was.
C15_ChildlessExitKeepsRootList ==
    [][(Step("exit") /\ current # IDLE_PID /\ children[current] = <<>>) =>
          children'[INITPROC] = children[INITPROC]]_vars

C15_Witness ==
    /\ last.op = "exit"
    /\ last.pid # IDLE_PID
    /\ last.kids = <<>>
    /\ task_status[last.pid] = "Zombie"
    /\ children[INITPROC] # <<>>

\* C17: every task in the ready queue is Ready, the task in the current
\* slot is Running, and at most one task is Running.
C17_StatusAgreesWithLocation ==
    /\ \A t \in Tasks : InQueue(t) => task_status[t] = "Ready"
    /\ current # None => task_status[current] = "Running"
    /\ Cardinality({t \in Tasks : task_status[t] = "Running"}) <= 1

C17_Witness ==
    /\ current # None
    /\ task_status[current] = "Running"
    /\ Len(dispatched) >= 2
    /\ Len(ready_queue) = NumTasks - 1
\* C16: at every context transfer (the __switch of run_tasks and the one of
\* schedule) no exclusive-access guard is held: not the Processor's, not the
\* ready queue's, not any task's inner record.
C16_NoGuardAcrossSwitch ==
    guards.held = {}

C16_Witness ==
    /\ guards.held = {}
    /\ current # None
    /\ Len(dispatched) >= 2
    /\ \E t \in Tasks : task_status[t] = "Zombie"
    /\ \E t \in Tasks : InQueue(t)

\* C20: no operation acquires a guard that is already held: exit never takes
\* the same inner record twice, and run_tasks, yield and schedule never take
\* the Processor guard while holding it.
C20_NoDoubleBorrow ==
    ~guards.double

C20_Witness ==
    /\ ~guards.double
    /\ last.op = "exit"
    /\ last.pid # IDLE_PID
    /\ last.kids # <<>>
    /\ Len(dispatched) >= 2
C14_SyscallFrame ==
    [][(\/ Step("mmap") \/ Step("munmap") \/ Step("sbrk")
        \/ Step("get_time") \/ Step("task_info")) =>
          /\ task_status' = task_status
          /\ ready_queue' = ready_queue
          /\ current' = current
          /\ \A t \in Tasks \ {current} :
                /\ page_table'[t] = page_table[t]
                /\ program_brk'[t] = program_brk[t]]_vars

C14_Witness ==
    /\ last.op = "sbrk"
    /\ last.ret = 0
    /\ program_brk[last.pid] = 1
    /\ ready_queue # <<>>
    /\ \A t \in Tasks \ {last.pid} : program_brk[t] = 0

\* C18: task_start of a task is written at its first dispatch and by nothing
\* else: it changes only in the step that sets task_begin, every dispatched
\* task keeps the time of its first dispatch, and the time task_info reports
\* is the time since the caller's first dispatch.
C18_StartStampedOnce ==
    [][/\ \A t \in Tasks :
             (task_start'[t] # task_start[t] \/ task_begin'[t] # task_begin[t]) =>
                /\ ~task_begin[t]
                /\ task_begin'[t]
                /\ t \notin Range(dispatched)
                /\ current = None
                /\ current' = t
       /\ \A t \in Range(dispatched') :
             /\ task_begin'[t]
             /\ task_start'[t] = first_dispatch'[t]
       /\ Step("task_info") =>
             last'.time = get_time_ms - first_dispatch[current]]_vars

C18_Witness ==
    /\ last.op = "task_info"
    /\ last.time > 0
    /\ Count(dispatched, last.pid) >= 2
    /\ \E t \in Tasks : task_begin[t] /\ task_start[t] # task_start[last.pid]
\* C19: no starvation under cooperation.  A dispatch happens only when no
\* task is running and takes the head of the ready queue; every other queued
\* task moves one place forward at a dispatch and is never moved back, so a
\* task with k tasks ahead of it is dispatched after k dispatches of others;
\* and when run_tasks keeps running and every running task eventually yields
\* or exits, a queued task for which enough dispatches remain is eventually
\* the current task, unless the root exits and halts the system.
C19_NoStarvation ==
    /\ [][/\ dispatched' # dispatched =>
                /\ current = None
                /\ ready_queue # <<>>
                /\ current' = Head(ready_queue)
                /\ dispatched' = Append(dispatched, Head(ready_queue))
          /\ current' # current => (current = None \/ current' = None)
          /\ \A t \in Tasks :
                InQueue(t) =>
                   IF dispatched' # dispatched
                   THEN \/ PosIn(ready_queue, t) = 1 /\ current' = t
                        \/ /\ t \in Range(ready_queue')
                           /\ PosIn(ready_queue', t) = PosIn(ready_queue, t) - 1
                   ELSE /\ t \in Range(ready_queue')
                        /\ PosIn(ready_queue', t) = PosIn(ready_queue, t)]_vars
    /\ \A t \in Tasks :
          (/\ InQueue(t)
           /\ Len(dispatched) + PosIn(ready_queue, t) <= budget.disp)
             ~> (current = t \/ halted)

C19_Witness ==
    /\ current = admitted[NumTasks]
    /\ Len(dispatched) = NumTasks
    /\ \E t \in Tasks : task_status[t] = "Zombie"
    /\ ~halted
====
